---- MODULE Spec2Model ----
(***************************************************************************)
(* Model of yaksh/arduino_to_esp/main.py: the digitalWrite instrumentation *)
(* pass and the CSV pin-usage verifier, run over tree-sitter syntax trees.  *)
(* Source text is a sequence of one-character strings (one per byte), a    *)
(* syntax node is a record with a type, a byte span [start, end), ordered   *)
(* children and named fields.                                               *)
(***************************************************************************)
EXTENDS Integers, Sequences, FiniteSets, TLC

\* ------------------------------------------------------------------------
\* Bounds
\* ------------------------------------------------------------------------
MaxDecls == 2
MaxCalls == 2
MaxStmts == 2
MaxBuf == 4
MaxEdits == 2
MaxRepl == 2
MaxNsStmts == 1
MaxExpectedLines == 2
MaxOutputLines == 2

\* ------------------------------------------------------------------------
\* State of one run of main() and of one evaluator
\* ------------------------------------------------------------------------
VARIABLES
  source,          \* bytes of the input file
  tree,            \* root node of parser.parse(source)
  var_assignments, \* dict built by extract_variable_assignments
  calls,           \* digitalWrite call nodes found
  edits,           \* (start, end, replacement) recorded so far
  todo,            \* sorted edits not yet applied
  instrumented,    \* the bytearray being rewritten
  output_file,     \* bytes written to the output file
  written,         \* the output file has been written
  pc,              \* position in main()
  row,             \* the CSV row read last
  line,            \* the report line printed last
  ANALOG_PINS,     \* module global
  DIGITAL_PINS,    \* module global
  prev_line,       \* last report line of the preceding run
  self,            \* the attributes of one EspIdfStdIOEvaluator
  returned         \* what its latest compile_code and check_code returned

vars == <<source, tree, var_assignments, calls, edits, todo, instrumented,
          output_file, written, pc, row, line, ANALOG_PINS, DIGITAL_PINS,
          prev_line, self, returned>>

\* ------------------------------------------------------------------------
\* Python values
\* ------------------------------------------------------------------------
\* Python's None where a text is expected (never equal to any text).
None == <<"<None>">>

Min(a, b) == IF a < b THEN a ELSE b
Max(a, b) == IF a > b THEN a ELSE b

\* The printable ASCII characters in code-point order: 32 .. 95 and 97 .. 126
\* (the backquote, 96, is not used in any text of the model).
AsciiLow == <<" ", "!", "\"", "#", "$", "%", "&", "'", "(", ")", "*", "+", ",",
              "-", ".", "/", "0", "1", "2", "3", "4", "5", "6", "7", "8", "9",
              ":", ";", "<", "=", ">", "?", "@", "A", "B", "C", "D", "E", "F",
              "G", "H", "I", "J", "K", "L", "M", "N", "O", "P", "Q", "R", "S",
              "T", "U", "V", "W", "X", "Y", "Z", "[", "\\", "]", "^", "_">>
AsciiHigh == <<"a", "b", "c", "d", "e", "f", "g", "h", "i", "j", "k", "l", "m",
               "n", "o", "p", "q", "r", "s", "t", "u", "v", "w", "x", "y", "z",
               "{", "|", "}", "~">>

\* The ASCII control characters 9 .. 13 and 28 .. 31.  A character that has
\* no escape in a string here is written by its Python escape, as one
\* string: "\\x0b" is the character U+000B.
AsciiControl == <<"\t", "\n", "\\x0b", "\f", "\r">>
AsciiSeparators == <<"\\x1c", "\\x1d", "\\x1e", "\\x1f">>

HexDigits == <<"0", "1", "2", "3", "4", "5", "6", "7", "8", "9", "a", "b", "c",
               "d", "e", "f">>

\* '%0*x' % (width, n)
RECURSIVE HexOf(_, _)
HexOf(n, width) ==
  IF width = 0 THEN ""
  ELSE HexOf(n \div 16, width - 1) \o HexDigits[(n % 16) + 1]

\* chr(cp), written as the texts here write a character; a byte of value v
\* is written as the character of code point v.
Chr(cp) ==
  IF cp \in 9..13 THEN AsciiControl[cp - 8]
  ELSE IF cp \in 28..31 THEN AsciiSeparators[cp - 27]
  ELSE IF cp \in 32..95 THEN AsciiLow[cp - 31]
  ELSE IF cp \in 97..126 THEN AsciiHigh[cp - 96]
  ELSE IF cp < 256 THEN "\\x" \o HexOf(cp, 2)
  ELSE IF cp < 65536 THEN "\\u" \o HexOf(cp, 4)
  ELSE "\\U" \o HexOf(cp, 8)

\* ord(c): the code point of a character, the value of a byte (bytes compare
\* by value in tuple sorting).
Ord(c) ==
  LET In(t) == \E i \in 1..Len(t) : t[i] = c
      Idx(t) == CHOOSE i \in 1..Len(t) : t[i] = c
  IN IF In(AsciiLow) THEN 31 + Idx(AsciiLow)
     ELSE IF In(AsciiHigh) THEN 96 + Idx(AsciiHigh)
     ELSE IF In(AsciiControl) THEN 8 + Idx(AsciiControl)
     ELSE IF In(AsciiSeparators) THEN 27 + Idx(AsciiSeparators)
     ELSE CHOOSE cp \in 0..1114111 : Chr(cp) = c

\* The characters below U+0080, each one byte in UTF-8: the byte itself.
AsciiChars == {Chr(cp) : cp \in 0..127}

IsAscii(s) == \A i \in 1..Len(s) : s[i] \in AsciiChars

\* The length of the well-formed UTF-8 sequence at the head of the byte
\* values v, 0 when the head of v is none.
Utf8Len(v) ==
  LET In(i, lo, hi) == i <= Len(v) /\ v[i] \in lo..hi
      Cont(i) == In(i, 128, 191)
  IN IF v[1] < 128 THEN 1
     ELSE IF v[1] \in 194..223 /\ Cont(2) THEN 2
     ELSE IF v[1] = 224 /\ In(2, 160, 191) /\ Cont(3) THEN 3
     ELSE IF v[1] \in (225..236) \cup {238, 239} /\ Cont(2) /\ Cont(3) THEN 3
     ELSE IF v[1] = 237 /\ In(2, 128, 159) /\ Cont(3) THEN 3
     ELSE IF v[1] = 240 /\ In(2, 144, 191) /\ Cont(3) /\ Cont(4) THEN 4
     ELSE IF v[1] \in 241..243 /\ Cont(2) /\ Cont(3) /\ Cont(4) THEN 4
     ELSE IF v[1] = 244 /\ In(2, 128, 143) /\ Cont(3) /\ Cont(4) THEN 4
     ELSE 0

\* The code point a well-formed sequence of n byte values at the head of v
\* encodes.
Utf8CodePoint(v, n) ==
  IF n = 1 THEN v[1]
  ELSE IF n = 2 THEN (v[1] - 192) * 64 + (v[2] - 128)
  ELSE IF n = 3 THEN (v[1] - 224) * 4096 + (v[2] - 128) * 64 + (v[3] - 128)
  ELSE (v[1] - 240) * 262144 + (v[2] - 128) * 4096 + (v[3] - 128) * 64
       + (v[4] - 128)

\* bytes.decode(): raised is TRUE for the UnicodeDecodeError of bytes that
\* are not well-formed UTF-8; otherwise text is the str, one character for
\* each byte that is not a continuation byte (128 .. 191).
DecodeUtf8(b) ==
  LET v == [i \in 1..Len(b) |-> Ord(b[i])]
      IsCont(i) == v[i] \in 128..191
      \* the length of the sequence that starts at i
      len == [i \in 1..Len(b) |->
                IF IsCont(i) THEN 0 ELSE Utf8Len(SubSeq(v, i, Min(i + 3, Len(b))))]
      Covered(i) == \E k \in 1..Min(3, i - 1) :
                      /\ \A j \in (i - k + 1)..(i - 1) : IsCont(j)
                      /\ len[i - k] > k
      IsHead(i) == ~IsCont(i)
      heads == SelectSeq([i \in 1..Len(b) |-> i], IsHead)
  IN IF \A i \in 1..Len(b) : IF IsCont(i) THEN Covered(i) ELSE len[i] > 0
     THEN [raised |-> FALSE,
           text |-> [k \in 1..Len(heads) |->
                       Chr(Utf8CodePoint(SubSeq(v, heads[k], Len(b)), len[heads[k]]))]]
     ELSE [raised |-> TRUE, text |-> <<>>]

\* ASCII bytes decode to themselves.
Decode(b) == IF IsAscii(b) THEN [raised |-> FALSE, text |-> b] ELSE DecodeUtf8(b)

\* The values of the UTF-8 bytes of a code point.
Utf8(cp) ==
  IF cp < 128 THEN <<cp>>
  ELSE IF cp < 2048 THEN <<192 + (cp \div 64), 128 + (cp % 64)>>
  ELSE IF cp < 65536
  THEN <<224 + (cp \div 4096), 128 + ((cp \div 64) % 64), 128 + (cp % 64)>>
  ELSE <<240 + (cp \div 262144), 128 + ((cp \div 4096) % 64),
         128 + ((cp \div 64) % 64), 128 + (cp % 64)>>

IsByte(c) == c # ""

\* str.encode() of a text that holds no surrogate (no text decoded from
\* bytes does): the bytes of each character in turn.
EncodeUtf8(s) ==
  LET units == [i \in 1..Len(s) |-> Utf8(Ord(s[i]))]
      Slot(k) == LET u == units[((k - 1) \div 4) + 1]
                     j == ((k - 1) % 4) + 1
                 IN IF j <= Len(u) THEN Chr(u[j]) ELSE ""
  IN SelectSeq([k \in 1..(4 * Len(s)) |-> Slot(k)], IsByte)

\* ASCII characters encode to themselves.
Encode(s) == IF IsAscii(s) THEN s ELSE EncodeUtf8(s)

\* The decimal digits int() accepts (category Nd), one row per script, each
\* row in the order of the values 0 .. 9; the first row is ASCII.
DecimalDigits ==
  <<
    <<"0", "1", "2", "3", "4", "5", "6", "7", "8", "9">>,
    <<"\\u0660", "\\u0661", "\\u0662", "\\u0663", "\\u0664", "\\u0665", "\\u0666", "\\u0667", "\\u0668", "\\u0669">>,
    <<"\\u06f0", "\\u06f1", "\\u06f2", "\\u06f3", "\\u06f4", "\\u06f5", "\\u06f6", "\\u06f7", "\\u06f8", "\\u06f9">>,
    <<"\\u07c0", "\\u07c1", "\\u07c2", "\\u07c3", "\\u07c4", "\\u07c5", "\\u07c6", "\\u07c7", "\\u07c8", "\\u07c9">>,
    <<"\\u0966", "\\u0967", "\\u0968", "\\u0969", "\\u096a", "\\u096b", "\\u096c", "\\u096d", "\\u096e", "\\u096f">>,
    <<"\\u09e6", "\\u09e7", "\\u09e8", "\\u09e9", "\\u09ea", "\\u09eb", "\\u09ec", "\\u09ed", "\\u09ee", "\\u09ef">>,
    <<"\\u0a66", "\\u0a67", "\\u0a68", "\\u0a69", "\\u0a6a", "\\u0a6b", "\\u0a6c", "\\u0a6d", "\\u0a6e", "\\u0a6f">>,
    <<"\\u0ae6", "\\u0ae7", "\\u0ae8", "\\u0ae9", "\\u0aea", "\\u0aeb", "\\u0aec", "\\u0aed", "\\u0aee", "\\u0aef">>,
    <<"\\u0b66", "\\u0b67", "\\u0b68", "\\u0b69", "\\u0b6a", "\\u0b6b", "\\u0b6c", "\\u0b6d", "\\u0b6e", "\\u0b6f">>,
    <<"\\u0be6", "\\u0be7", "\\u0be8", "\\u0be9", "\\u0bea", "\\u0beb", "\\u0bec", "\\u0bed", "\\u0bee", "\\u0bef">>,
    <<"\\u0c66", "\\u0c67", "\\u0c68", "\\u0c69", "\\u0c6a", "\\u0c6b", "\\u0c6c", "\\u0c6d", "\\u0c6e", "\\u0c6f">>,
    <<"\\u0ce6", "\\u0ce7", "\\u0ce8", "\\u0ce9", "\\u0cea", "\\u0ceb", "\\u0cec", "\\u0ced", "\\u0cee", "\\u0cef">>,
    <<"\\u0d66", "\\u0d67", "\\u0d68", "\\u0d69", "\\u0d6a", "\\u0d6b", "\\u0d6c", "\\u0d6d", "\\u0d6e", "\\u0d6f">>,
    <<"\\u0de6", "\\u0de7", "\\u0de8", "\\u0de9", "\\u0dea", "\\u0deb", "\\u0dec", "\\u0ded", "\\u0dee", "\\u0def">>,
    <<"\\u0e50", "\\u0e51", "\\u0e52", "\\u0e53", "\\u0e54", "\\u0e55", "\\u0e56", "\\u0e57", "\\u0e58", "\\u0e59">>,
    <<"\\u0ed0", "\\u0ed1", "\\u0ed2", "\\u0ed3", "\\u0ed4", "\\u0ed5", "\\u0ed6", "\\u0ed7", "\\u0ed8", "\\u0ed9">>,
    <<"\\u0f20", "\\u0f21", "\\u0f22", "\\u0f23", "\\u0f24", "\\u0f25", "\\u0f26", "\\u0f27", "\\u0f28", "\\u0f29">>,
    <<"\\u1040", "\\u1041", "\\u1042", "\\u1043", "\\u1044", "\\u1045", "\\u1046", "\\u1047", "\\u1048", "\\u1049">>,
    <<"\\u1090", "\\u1091", "\\u1092", "\\u1093", "\\u1094", "\\u1095", "\\u1096", "\\u1097", "\\u1098", "\\u1099">>,
    <<"\\u17e0", "\\u17e1", "\\u17e2", "\\u17e3", "\\u17e4", "\\u17e5", "\\u17e6", "\\u17e7", "\\u17e8", "\\u17e9">>,
    <<"\\u1810", "\\u1811", "\\u1812", "\\u1813", "\\u1814", "\\u1815", "\\u1816", "\\u1817", "\\u1818", "\\u1819">>,
    <<"\\u1946", "\\u1947", "\\u1948", "\\u1949", "\\u194a", "\\u194b", "\\u194c", "\\u194d", "\\u194e", "\\u194f">>,
    <<"\\u19d0", "\\u19d1", "\\u19d2", "\\u19d3", "\\u19d4", "\\u19d5", "\\u19d6", "\\u19d7", "\\u19d8", "\\u19d9">>,
    <<"\\u1a80", "\\u1a81", "\\u1a82", "\\u1a83", "\\u1a84", "\\u1a85", "\\u1a86", "\\u1a87", "\\u1a88", "\\u1a89">>,
    <<"\\u1a90", "\\u1a91", "\\u1a92", "\\u1a93", "\\u1a94", "\\u1a95", "\\u1a96", "\\u1a97", "\\u1a98", "\\u1a99">>,
    <<"\\u1b50", "\\u1b51", "\\u1b52", "\\u1b53", "\\u1b54", "\\u1b55", "\\u1b56", "\\u1b57", "\\u1b58", "\\u1b59">>,
    <<"\\u1bb0", "\\u1bb1", "\\u1bb2", "\\u1bb3", "\\u1bb4", "\\u1bb5", "\\u1bb6", "\\u1bb7", "\\u1bb8", "\\u1bb9">>,
    <<"\\u1c40", "\\u1c41", "\\u1c42", "\\u1c43", "\\u1c44", "\\u1c45", "\\u1c46", "\\u1c47", "\\u1c48", "\\u1c49">>,
    <<"\\u1c50", "\\u1c51", "\\u1c52", "\\u1c53", "\\u1c54", "\\u1c55", "\\u1c56", "\\u1c57", "\\u1c58", "\\u1c59">>,
    <<"\\ua620", "\\ua621", "\\ua622", "\\ua623", "\\ua624", "\\ua625", "\\ua626", "\\ua627", "\\ua628", "\\ua629">>,
    <<"\\ua8d0", "\\ua8d1", "\\ua8d2", "\\ua8d3", "\\ua8d4", "\\ua8d5", "\\ua8d6", "\\ua8d7", "\\ua8d8", "\\ua8d9">>,
    <<"\\ua900", "\\ua901", "\\ua902", "\\ua903", "\\ua904", "\\ua905", "\\ua906", "\\ua907", "\\ua908", "\\ua909">>,
    <<"\\ua9d0", "\\ua9d1", "\\ua9d2", "\\ua9d3", "\\ua9d4", "\\ua9d5", "\\ua9d6", "\\ua9d7", "\\ua9d8", "\\ua9d9">>,
    <<"\\ua9f0", "\\ua9f1", "\\ua9f2", "\\ua9f3", "\\ua9f4", "\\ua9f5", "\\ua9f6", "\\ua9f7", "\\ua9f8", "\\ua9f9">>,
    <<"\\uaa50", "\\uaa51", "\\uaa52", "\\uaa53", "\\uaa54", "\\uaa55", "\\uaa56", "\\uaa57", "\\uaa58", "\\uaa59">>,
    <<"\\uabf0", "\\uabf1", "\\uabf2", "\\uabf3", "\\uabf4", "\\uabf5", "\\uabf6", "\\uabf7", "\\uabf8", "\\uabf9">>,
    <<"\\uff10", "\\uff11", "\\uff12", "\\uff13", "\\uff14", "\\uff15", "\\uff16", "\\uff17", "\\uff18", "\\uff19">>,
    <<"\\U000104a0", "\\U000104a1", "\\U000104a2", "\\U000104a3", "\\U000104a4",
      "\\U000104a5", "\\U000104a6", "\\U000104a7", "\\U000104a8", "\\U000104a9">>,
    <<"\\U00010d30", "\\U00010d31", "\\U00010d32", "\\U00010d33", "\\U00010d34",
      "\\U00010d35", "\\U00010d36", "\\U00010d37", "\\U00010d38", "\\U00010d39">>,
    <<"\\U00011066", "\\U00011067", "\\U00011068", "\\U00011069", "\\U0001106a",
      "\\U0001106b", "\\U0001106c", "\\U0001106d", "\\U0001106e", "\\U0001106f">>,
    <<"\\U000110f0", "\\U000110f1", "\\U000110f2", "\\U000110f3", "\\U000110f4",
      "\\U000110f5", "\\U000110f6", "\\U000110f7", "\\U000110f8", "\\U000110f9">>,
    <<"\\U00011136", "\\U00011137", "\\U00011138", "\\U00011139", "\\U0001113a",
      "\\U0001113b", "\\U0001113c", "\\U0001113d", "\\U0001113e", "\\U0001113f">>,
    <<"\\U000111d0", "\\U000111d1", "\\U000111d2", "\\U000111d3", "\\U000111d4",
      "\\U000111d5", "\\U000111d6", "\\U000111d7", "\\U000111d8", "\\U000111d9">>,
    <<"\\U000112f0", "\\U000112f1", "\\U000112f2", "\\U000112f3", "\\U000112f4",
      "\\U000112f5", "\\U000112f6", "\\U000112f7", "\\U000112f8", "\\U000112f9">>,
    <<"\\U00011450", "\\U00011451", "\\U00011452", "\\U00011453", "\\U00011454",
      "\\U00011455", "\\U00011456", "\\U00011457", "\\U00011458", "\\U00011459">>,
    <<"\\U000114d0", "\\U000114d1", "\\U000114d2", "\\U000114d3", "\\U000114d4",
      "\\U000114d5", "\\U000114d6", "\\U000114d7", "\\U000114d8", "\\U000114d9">>,
    <<"\\U00011650", "\\U00011651", "\\U00011652", "\\U00011653", "\\U00011654",
      "\\U00011655", "\\U00011656", "\\U00011657", "\\U00011658", "\\U00011659">>,
    <<"\\U000116c0", "\\U000116c1", "\\U000116c2", "\\U000116c3", "\\U000116c4",
      "\\U000116c5", "\\U000116c6", "\\U000116c7", "\\U000116c8", "\\U000116c9">>,
    <<"\\U00011730", "\\U00011731", "\\U00011732", "\\U00011733", "\\U00011734",
      "\\U00011735", "\\U00011736", "\\U00011737", "\\U00011738", "\\U00011739">>,
    <<"\\U000118e0", "\\U000118e1", "\\U000118e2", "\\U000118e3", "\\U000118e4",
      "\\U000118e5", "\\U000118e6", "\\U000118e7", "\\U000118e8", "\\U000118e9">>,
    <<"\\U00011950", "\\U00011951", "\\U00011952", "\\U00011953", "\\U00011954",
      "\\U00011955", "\\U00011956", "\\U00011957", "\\U00011958", "\\U00011959">>,
    <<"\\U00011c50", "\\U00011c51", "\\U00011c52", "\\U00011c53", "\\U00011c54",
      "\\U00011c55", "\\U00011c56", "\\U00011c57", "\\U00011c58", "\\U00011c59">>,
    <<"\\U00011d50", "\\U00011d51", "\\U00011d52", "\\U00011d53", "\\U00011d54",
      "\\U00011d55", "\\U00011d56", "\\U00011d57", "\\U00011d58", "\\U00011d59">>,
    <<"\\U00011da0", "\\U00011da1", "\\U00011da2", "\\U00011da3", "\\U00011da4",
      "\\U00011da5", "\\U00011da6", "\\U00011da7", "\\U00011da8", "\\U00011da9">>,
    <<"\\U00016a60", "\\U00016a61", "\\U00016a62", "\\U00016a63", "\\U00016a64",
      "\\U00016a65", "\\U00016a66", "\\U00016a67", "\\U00016a68", "\\U00016a69">>,
    <<"\\U00016ac0", "\\U00016ac1", "\\U00016ac2", "\\U00016ac3", "\\U00016ac4",
      "\\U00016ac5", "\\U00016ac6", "\\U00016ac7", "\\U00016ac8", "\\U00016ac9">>,
    <<"\\U00016b50", "\\U00016b51", "\\U00016b52", "\\U00016b53", "\\U00016b54",
      "\\U00016b55", "\\U00016b56", "\\U00016b57", "\\U00016b58", "\\U00016b59">>,
    <<"\\U0001d7ce", "\\U0001d7cf", "\\U0001d7d0", "\\U0001d7d1", "\\U0001d7d2",
      "\\U0001d7d3", "\\U0001d7d4", "\\U0001d7d5", "\\U0001d7d6", "\\U0001d7d7">>,
    <<"\\U0001d7d8", "\\U0001d7d9", "\\U0001d7da", "\\U0001d7db", "\\U0001d7dc",
      "\\U0001d7dd", "\\U0001d7de", "\\U0001d7df", "\\U0001d7e0", "\\U0001d7e1">>,
    <<"\\U0001d7e2", "\\U0001d7e3", "\\U0001d7e4", "\\U0001d7e5", "\\U0001d7e6",
      "\\U0001d7e7", "\\U0001d7e8", "\\U0001d7e9", "\\U0001d7ea", "\\U0001d7eb">>,
    <<"\\U0001d7ec", "\\U0001d7ed", "\\U0001d7ee", "\\U0001d7ef", "\\U0001d7f0",
      "\\U0001d7f1", "\\U0001d7f2", "\\U0001d7f3", "\\U0001d7f4", "\\U0001d7f5">>,
    <<"\\U0001d7f6", "\\U0001d7f7", "\\U0001d7f8", "\\U0001d7f9", "\\U0001d7fa",
      "\\U0001d7fb", "\\U0001d7fc", "\\U0001d7fd", "\\U0001d7fe", "\\U0001d7ff">>,
    <<"\\U0001e140", "\\U0001e141", "\\U0001e142", "\\U0001e143", "\\U0001e144",
      "\\U0001e145", "\\U0001e146", "\\U0001e147", "\\U0001e148", "\\U0001e149">>,
    <<"\\U0001e2f0", "\\U0001e2f1", "\\U0001e2f2", "\\U0001e2f3", "\\U0001e2f4",
      "\\U0001e2f5", "\\U0001e2f6", "\\U0001e2f7", "\\U0001e2f8", "\\U0001e2f9">>,
    <<"\\U0001e950", "\\U0001e951", "\\U0001e952", "\\U0001e953", "\\U0001e954",
      "\\U0001e955", "\\U0001e956", "\\U0001e957", "\\U0001e958", "\\U0001e959">>,
    <<"\\U0001fbf0", "\\U0001fbf1", "\\U0001fbf2", "\\U0001fbf3", "\\U0001fbf4",
      "\\U0001fbf5", "\\U0001fbf6", "\\U0001fbf7", "\\U0001fbf8", "\\U0001fbf9">>
  >>

Digits == {DecimalDigits[r][k] : r \in 1..Len(DecimalDigits), k \in 1..10}

\* The value of a decimal digit.
DigitValue(c) ==
  (CHOOSE k \in 1..10 : \E r \in 1..Len(DecimalDigits) : DecimalDigits[r][k] = c) - 1

\* The digits of a text as ASCII digits of the same values.
AsciiDigits(b) == [i \in 1..Len(b) |-> DecimalDigits[1][DigitValue(b[i]) + 1]]

\* The characters c with c.isspace(): what str.strip() removes.
Whitespace ==
  {"\t", "\n", "\\x0b", "\f", "\r", "\\x1c", "\\x1d", "\\x1e", "\\x1f", " ",
   "\\x85", "\\xa0", "\\u1680", "\\u2000", "\\u2001", "\\u2002", "\\u2003",
   "\\u2004", "\\u2005", "\\u2006", "\\u2007", "\\u2008", "\\u2009", "\\u200a",
   "\\u2028", "\\u2029", "\\u202f", "\\u205f", "\\u3000"}

\* The characters int() skips around a number: the same except the four
\* separators U+001C .. U+001F.
IntWhitespace == Whitespace \ {"\\x1c", "\\x1d", "\\x1e", "\\x1f"}

\* The characters str.splitlines() ends a line at.
LineBoundaries ==
  {"\n", "\\x0b", "\f", "\r", "\\x1c", "\\x1d", "\\x1e", "\\x85", "\\u2028",
   "\\u2029"}

\* s with its leading (trailing) characters of the set removed.
RECURSIVE LStripOf(_, _)
LStripOf(s, chars) ==
  IF s # <<>> /\ Head(s) \in chars THEN LStripOf(Tail(s), chars) ELSE s

RECURSIVE RStripOf(_, _)
RStripOf(s, chars) ==
  IF s # <<>> /\ s[Len(s)] \in chars THEN RStripOf(SubSeq(s, 1, Len(s) - 1), chars)
  ELSE s

LStrip(s) == LStripOf(s, Whitespace)

RStrip(s) == RStripOf(s, Whitespace)

\* str.strip()
Strip(s) == RStrip(LStrip(s))

\* The text int() reads once the whitespace around it is skipped.
IntStrip(s) == RStripOf(LStripOf(s, IntWhitespace), IntWhitespace)

\* sys.int_info.default_max_str_digits: int() raises ValueError for a text
\* of more digits.
default_max_str_digits == 4300

\* The digits-and-underscores body int() accepts: digits, with single
\* underscores only between digits, at most default_max_str_digits digits
\* (leading zeros counted, underscores not).
IsIntBody(b) ==
  /\ b # <<>>
  /\ b[1] \in Digits
  /\ b[Len(b)] \in Digits
  /\ \A i \in 1..Len(b) : b[i] \in Digits \cup {"_"}
  /\ \A i \in 1..(Len(b) - 1) : ~(b[i] = "_" /\ b[i + 1] = "_")
  /\ Cardinality({i \in 1..Len(b) : b[i] \in Digits}) <= default_max_str_digits

IntBody(s) ==
  LET t == IntStrip(s) IN
  IF t # <<>> /\ t[1] \in {"+", "-"} THEN Tail(t) ELSE t

\* int(s) succeeds (no ValueError); int(None) raises TypeError.
IntParses(s) == s # None /\ IsIntBody(IntBody(s))

NotUnderscore(c) == c # "_"

\* The body without the underscores int() skips.
DropUnderscores(b) == SelectSeq(b, NotUnderscore)

\* The digits from the first that is not "0", or the last digit when all are.
DropLeadingZeros(b) ==
  LET n == Len(b)
      first == CHOOSE i \in 1..n :
                 (i = n \/ b[i] # "0") /\ \A j \in 1..(i - 1) : b[j] = "0"
  IN IF b = <<>> THEN <<>> ELSE SubSeq(b, first, n)

\* str(int(s)) for a text int() accepts: the canonical decimal form.
StrOfInt(s) ==
  LET t == IntStrip(s)
      mag == DropLeadingZeros(AsciiDigits(DropUnderscores(IntBody(s))))
  IN IF t[1] = "-" /\ mag # <<"0">> THEN <<"-">> \o mag ELSE mag

\* str(v) / f-string rendering of a text or None.
Str(v) == IF v = None THEN <<"N", "o", "n", "e">> ELSE v

\* try: v = int(s)  except (ValueError, TypeError): v = s  ; then str(v)
StrCoerced(s) == IF IntParses(s) THEN StrOfInt(s) ELSE Str(s)

\* ------------------------------------------------------------------------
\* Texts
\* ------------------------------------------------------------------------
S_digitalWrite == <<"d", "i", "g", "i", "t", "a", "l", "W", "r", "i", "t", "e">>
S_analogRead == <<"a", "n", "a", "l", "o", "g", "R", "e", "a", "d">>
S_digitalRead == <<"d", "i", "g", "i", "t", "a", "l", "R", "e", "a", "d">>
S_int == <<"i", "n", "t">>
S_void == <<"v", "o", "i", "d">>
S_loop == <<"l", "o", "o", "p">>
S_PIN == <<"P", "I", "N">>
S_HIGH == <<"H", "I", "G", "H">>
S_LOW == <<"L", "O", "W">>
S_A0 == <<"A", "0">>

\* ------------------------------------------------------------------------
\* Syntax trees as tree-sitter-cpp produces them (parser.parse, the input of
\* every pass).  A built item carries the node, positioned at offset 0, the
\* text it spans and the whitespace that precedes it in its parent.
\* ------------------------------------------------------------------------
\* The absent node: what child_by_field_name returns for a missing field.
NoNode == [type |-> "<None>", start |-> 0, end |-> 0, children |-> <<>>, fields |-> {}]

Field(name, idx) == [name |-> name, idx |-> idx]

RECURSIVE Shift(_, _)
Shift(node, k) ==
  [type |-> node.type, start |-> node.start + k, end |-> node.end + k,
   children |-> [i \in 1..Len(node.children) |-> Shift(node.children[i], k)],
   fields |-> node.fields]

Tok(type, txt) ==
  [n |-> [type |-> type, start |-> 0, end |-> Len(txt), children |-> <<>>, fields |-> {}],
   t |-> txt, pre |-> <<>>]

\* The item preceded by one space.
Sp(b) == [b EXCEPT !.pre = <<" ">>]

\* A node of the given type whose children are the items, laid out in order.
Mk(type, items, fields) ==
  LET Off[i \in 0..Len(items)] ==
        IF i = 0 THEN 0 ELSE Off[i - 1] + Len(items[i].pre) + Len(items[i].t)
      Txt[i \in 0..Len(items)] ==
        IF i = 0 THEN <<>> ELSE Txt[i - 1] \o items[i].pre \o items[i].t
  IN [n |-> [type |-> type, start |-> 0, end |-> Off[Len(items)],
             children |-> [i \in 1..Len(items) |->
                             Shift(items[i].n, Off[i - 1] + Len(items[i].pre))],
             fields |-> fields],
      t |-> Txt[Len(items)], pre |-> <<>>]

Ident(txt) == Tok("identifier", txt)
Num(txt) == Tok("number_literal", txt)
\* An anonymous token: its type is its text.
Punct(c) == Tok(c, <<c>>)

\* name = value
InitDeclarator(name, value) ==
  Mk("init_declarator", <<Ident(name), Sp(Punct("=")), Sp(value)>>,
     {Field("declarator", 1), Field("value", 3)})

\* int <declarator>;   the declarator is an identifier or an init_declarator
Declaration(declarator) ==
  Mk("declaration", <<Tok("primitive_type", S_int), Sp(declarator), Punct(";")>>,
     {Field("type", 1), Field("declarator", 2)})

AssignmentExpr(left, right) ==
  Mk("assignment_expression", <<Ident(left), Sp(Punct("=")), Sp(right)>>,
     {Field("left", 1), Field("operator", 2), Field("right", 3)})

BinaryExpr(left, op, right) ==
  Mk("binary_expression", <<left, Sp(Punct(op)), Sp(right)>>,
     {Field("left", 1), Field("operator", 2), Field("right", 3)})

\* /*body*/
Comment(body) == Tok("comment", <<"/", "*">> \o body \o <<"*", "/">>)

\* ( a1, a2, ... c1 c2 ... ): the comments before the closing parenthesis
\* are children of the argument list.
ArgumentListWith(args, comments) ==
  LET Items[i \in 0..Len(args)] ==
        IF i = 0 THEN <<Punct("(")>>
        ELSE IF i = 1 THEN Items[0] \o <<args[1]>>
        ELSE Items[i - 1] \o <<Punct(","), Sp(args[i])>>
  IN Mk("argument_list",
        Items[Len(args)] \o [k \in 1..Len(comments) |-> Sp(comments[k])]
          \o <<Punct(")")>>, {})

\* ( a1, a2, ... )
ArgumentList(args) == ArgumentListWith(args, <<>>)

CallExpr(fname, args) ==
  Mk("call_expression", <<Ident(fname), ArgumentList(args)>>,
     {Field("function", 1), Field("arguments", 2)})

\* fname(a1, a2, ... c1 c2 ...)
CallExprWith(fname, args, comments) ==
  Mk("call_expression", <<Ident(fname), ArgumentListWith(args, comments)>>,
     {Field("function", 1), Field("arguments", 2)})

ExprStmt(e) == Mk("expression_statement", <<e, Punct(";")>>, {})

\* void loop() { stmts }
FunctionDefinition(stmts) ==
  Mk("function_definition",
     <<Tok("primitive_type", S_void),
       Sp(Mk("function_declarator",
             <<Ident(S_loop), Mk("parameter_list", <<Punct("("), Punct(")")>>, {})>>,
             {Field("declarator", 1), Field("parameters", 2)})),
       Sp(Mk("compound_statement",
             <<Punct("{")>> \o [i \in 1..Len(stmts) |-> Sp(stmts[i])] \o <<Sp(Punct("}"))>>,
             {}))>>,
     {Field("type", 1), Field("declarator", 2), Field("body", 3)})

\* Top-level declarations followed by the loop function.
TranslationUnit(decls, stmts) ==
  Mk("translation_unit",
     [i \in 1..Len(decls) |-> IF i = 1 THEN decls[i] ELSE Sp(decls[i])]
       \o <<(IF decls = <<>> THEN FunctionDefinition(stmts)
             ELSE Sp(FunctionDefinition(stmts)))>>,
     {})

\* The declarations a program is drawn from.
DeclPool ==
  << Declaration(InitDeclarator(S_PIN, Num(<<"5">>))),            \* int PIN = 5;
     Declaration(InitDeclarator(<<"B">>, Ident(S_PIN))),          \* int B = PIN;
     Declaration(Ident(<<"x">>)),                                 \* int x;
     Declaration(InitDeclarator(<<"s">>,
        BinaryExpr(Num(<<"1">>), "+", Num(<<"2">>)))),              \* int s = 1 + 2;
     Declaration(InitDeclarator(<<"y">>,
        AssignmentExpr(<<"z">>, Num(<<"7">>)))) >>                  \* int y = z = 7;

\* The statements of loop() a program is drawn from.
StmtPool ==
  << ExprStmt(CallExpr(S_digitalWrite, <<Ident(S_PIN), Ident(S_HIGH)>>)),
     ExprStmt(CallExpr(S_digitalWrite, <<Ident(<<"B">>), Ident(S_LOW)>>)),
     ExprStmt(CallExpr(S_digitalWrite, <<Num(<<"4", "2">>), Num(<<"1">>)>>)),
     ExprStmt(CallExpr(S_digitalWrite, <<AssignmentExpr(S_PIN, Num(<<"5">>))>>)),
     ExprStmt(CallExpr(S_digitalWrite, <<>>)),
     ExprStmt(CallExpr(S_digitalWrite,
        <<CallExpr(S_digitalWrite, <<Num(<<"2">>), Num(<<"1">>)>>), Num(<<"0">>)>>)),
     ExprStmt(CallExpr(S_digitalWrite,
        <<AssignmentExpr(S_PIN, Num(<<"5">>)), Ident(S_HIGH)>>)),
     ExprStmt(CallExpr(S_analogRead, <<Ident(S_A0)>>)),
     \* digitalWrite(5, 1 /*\xe9*/);  the comment holds the byte 0xE9, which
     \* is "e" with an acute accent in Latin-1 and no UTF-8 sequence
     ExprStmt(CallExprWith(S_digitalWrite, <<Num(<<"5">>), Num(<<"1">>)>>,
                           <<Comment(<<"\\xe9">>)>>)),
     \* \xe9(1, 2);  a call whose callee is the byte 0xE9
     ExprStmt(CallExpr(<<"\\xe9">>, <<Num(<<"1">>), Num(<<"2">>)>>)) >>

SeqsUpTo(n, k) == UNION {[1..m -> 1..n] : m \in 0..k}

\* A program: which declarations and which statements, in order.
\* At most maxDecls declarations, maxCalls statements, maxStmts of both.
ProgramsUpTo(maxDecls, maxCalls, maxStmts) ==
  {p \in {[decls |-> d, stmts |-> s] :
            d \in SeqsUpTo(Len(DeclPool), maxDecls),
            s \in SeqsUpTo(Len(StmtPool), maxCalls)} :
     Len(p.decls) + Len(p.stmts) <= maxStmts}

Programs == ProgramsUpTo(MaxDecls, MaxCalls, MaxStmts)

\* parser.parse(src): the tree of a program together with its bytes.
Parse(p) ==
  TranslationUnit([i \in 1..Len(p.decls) |-> DeclPool[p.decls[i]]],
                  [i \in 1..Len(p.stmts) |-> StmtPool[p.stmts[i]]])

\* ------------------------------------------------------------------------
\* main.py, sections 2 and 3: traversal and extraction
\* ------------------------------------------------------------------------
\* source[node.start_byte:node.end_byte]
Bytes(src, node) == SubSeq(src, node.start + 1, node.end)

\* source[node.start_byte:node.end_byte].decode(), when it does not raise
Text(src, node) == Decode(Bytes(src, node)).text

\* source[node.start_byte:node.end_byte].decode() raises UnicodeDecodeError
Undecodable(src, node) == Decode(Bytes(src, node)).raised

\* node.child_by_field_name(name): the first child under that field, or None.
child_by_field_name(node, name) ==
  IF \E f \in node.fields : f.name = name
  THEN LET first == CHOOSE i \in {f.idx : f \in {g \in node.fields : g.name = name}} :
                      \A g \in node.fields : g.name = name => i <= g.idx
       IN node.children[first]
  ELSE NoNode

\* The nodes of a subtree in the order a traversal reaches them: a node,
\* then its children's subtrees left to right.
RECURSIVE PreOrder(_)
PreOrder(node) ==
  LET Sub[i \in 0..Len(node.children)] ==
        IF i = 0 THEN <<node>> ELSE Sub[i - 1] \o PreOrder(node.children[i])
  IN Sub[Len(node.children)]

\* Lines 24 and 36 raise during the traversal: the callee of some call
\* expression does not decode.
CalleeUndecodable(root, src) ==
  LET nodes == PreOrder(root) IN
  \E i \in 1..Len(nodes) :
    /\ nodes[i].type = "call_expression"
    /\ child_by_field_name(nodes[i], "function") # NoNode
    /\ Undecodable(src, child_by_field_name(nodes[i], "function"))

\* The results list when line 24 raises: the digitalWrite calls appended
\* (line 26) at the nodes visited before the first call expression whose
\* callee does not decode.
find_digital_write_calls_until_raise(root, src) ==
  LET nodes == PreOrder(root)
      Raises(i) == /\ nodes[i].type = "call_expression"
                   /\ child_by_field_name(nodes[i], "function") # NoNode
                   /\ Undecodable(src, child_by_field_name(nodes[i], "function"))
      first == CHOOSE i \in 1..Len(nodes) :
                 Raises(i) /\ \A j \in 1..(i - 1) : ~Raises(j)
      Appended(node) == /\ node.type = "call_expression"
                        /\ child_by_field_name(node, "function") # NoNode
                        /\ Text(src, child_by_field_name(node, "function"))
                             = S_digitalWrite
  IN SelectSeq(SubSeq(nodes, 1, first - 1), Appended)

\* The call nodes named digitalWrite, in pre-order (the results list).
RECURSIVE find_digital_write_calls(_, _)
find_digital_write_calls(node, src) ==
  LET fn == child_by_field_name(node, "function")
      here == IF /\ node.type = "call_expression"
                 /\ fn # NoNode
                 /\ Text(src, fn) = S_digitalWrite
              THEN <<node>> ELSE <<>>
      Sub[i \in 0..Len(node.children)] ==
        IF i = 0 THEN <<>>
        ELSE Sub[i - 1] \o find_digital_write_calls(node.children[i], src)
  IN here \o Sub[Len(node.children)]

\* The call nodes whose callee text is func_name, in pre-order.
RECURSIVE find_function_calls(_, _, _)
find_function_calls(node, src, func_name) ==
  LET fn == child_by_field_name(node, "function")
      here == IF /\ node.type = "call_expression"
                 /\ fn # NoNode
                 /\ Text(src, fn) = func_name
              THEN <<node>> ELSE <<>>
      Sub[i \in 0..Len(node.children)] ==
        IF i = 0 THEN <<>>
        ELSE Sub[i - 1] \o find_function_calls(node.children[i], src, func_name)
  IN here \o Sub[Len(node.children)]

\* extract_args: raised is TRUE when args is None and args.children raises
\* AttributeError, or when the bytes of a child that is not "(", ")" or ","
\* do not decode (UnicodeDecodeError); otherwise values is the list returned.
extract_args(call_node, src) ==
  LET args == child_by_field_name(call_node, "arguments")
      Vals[i \in 0..Len(args.children)] ==
        IF i = 0 THEN <<>>
        ELSE IF args.children[i].type \notin {"(", ")", ","}
             THEN Append(Vals[i - 1], Strip(Text(src, args.children[i])))
             ELSE Vals[i - 1]
  IN IF \/ args = NoNode
        \/ \E i \in 1..Len(args.children) :
             /\ args.children[i].type \notin {"(", ")", ","}
             /\ Undecodable(src, args.children[i])
     THEN [raised |-> TRUE, values |-> <<>>]
     ELSE [raised |-> FALSE, values |-> Vals[Len(args.children)]]

\* The dict after assignments[key] = value.
DictSet(d, key, value) ==
  [k \in (DOMAIN d) \cup {key} |-> IF k = key THEN value ELSE d[k]]

EmptyDict == [k \in {} |-> <<>>]

\* The inner loop over an init_declarator's children: the value after the
\* last child that sets var_value.
InitDeclaratorValue(child, src, var_value) ==
  LET V[j \in 0..Len(child.children)] ==
        IF j = 0 THEN var_value
        ELSE LET subchild == child.children[j]
                 right == child_by_field_name(subchild, "right")
             IN IF subchild.type \in {"number_literal", "identifier", "field_identifier"}
                THEN Strip(Text(src, subchild))
                ELSE IF subchild.type = "assignment_expression" /\ right # NoNode
                THEN Strip(Text(src, right))
                ELSE V[j - 1]
  IN V[Len(child.children)]

\* The loop over a declaration's children, starting from var_value = None.
DeclarationValue(node, src) ==
  LET V[i \in 0..Len(node.children)] ==
        IF i = 0 THEN None
        ELSE IF node.children[i].type = "init_declarator"
             THEN InitDeclaratorValue(node.children[i], src, V[i - 1])
             ELSE V[i - 1]
  IN V[Len(node.children)]

\* visit(node) raises at this node: a declaration with a "declarator" field
\* one of whose decoded spans (lines 76, 81, 82) does not decode.
BindingUndecodable(node, src) ==
  /\ node.type = "declaration"
  /\ child_by_field_name(node, "declarator") # NoNode
  /\ \/ Undecodable(src, child_by_field_name(node, "declarator"))
     \/ \E i \in 1..Len(node.children) :
          /\ node.children[i].type = "init_declarator"
          /\ \E j \in 1..Len(node.children[i].children) :
               LET subchild == node.children[i].children[j]
                   right == child_by_field_name(subchild, "right")
               IN \/ /\ subchild.type \in {"number_literal", "identifier",
                                           "field_identifier"}
                     /\ Undecodable(src, subchild)
                  \/ /\ subchild.type = "assignment_expression"
                     /\ right # NoNode
                     /\ Undecodable(src, right)

\* visit(node) stores a binding at this node: a declaration with a
\* "declarator" field and a truthy var_value.
StoresBinding(node, src) ==
  /\ node.type = "declaration"
  /\ child_by_field_name(node, "declarator") # NoNode
  /\ DeclarationValue(node, src) # None
  /\ DeclarationValue(node, src) # <<>>

\* var_name_str
BindingKey(node, src) == Strip(Text(src, child_by_field_name(node, "declarator")))

\* The assignments dict after visit(root): every key stored by a visited
\* declaration, with the value stored by the last one visited; raised is TRUE
\* when a visited declaration raises.
extract_variable_assignments(root, src) ==
  LET nodes == PreOrder(root)
      stores == {i \in 1..Len(nodes) : StoresBinding(nodes[i], src)}
      last(key) == CHOOSE i \in stores :
                     /\ BindingKey(nodes[i], src) = key
                     /\ \A j \in stores : BindingKey(nodes[j], src) = key => j <= i
  IN IF \E i \in 1..Len(nodes) : BindingUndecodable(nodes[i], src)
     THEN [raised |-> TRUE, assignments |-> EmptyDict]
     ELSE [raised |-> FALSE,
           assignments |-> [key \in {BindingKey(nodes[i], src) : i \in stores} |->
                              DeclarationValue(nodes[last(key)], src)]]

\* ------------------------------------------------------------------------
\* main.py, section 4: pin namespaces
\* ------------------------------------------------------------------------
\* Pin designators are texts or integers; integers are written as numbers.
ANALOG_PINS_DEFAULT ==
  [names |-> {<<"A", "0">>, <<"A", "1">>, <<"A", "2">>, <<"A", "3">>, <<"A", "4">>, <<"A", "5">>}, numbers |-> 0..5]

DIGITAL_PINS_DEFAULT ==
  [names |-> {<<"D", "0">>, <<"D", "1">>, <<"D", "2">>, <<"D", "3">>, <<"D", "4">>, <<"D", "5">>, <<"D", "6">>, <<"D", "7">>,
              <<"D", "8">>, <<"D", "9">>, <<"D", "1", "0">>, <<"D", "1", "1">>, <<"D", "1", "2">>, <<"D", "1", "3">>},
   numbers |-> 0..13]

\* is_valid_pin is defined by main.py and called nowhere in it.
RECURSIVE DigitsValue(_)
DigitsValue(b) ==
  IF b = <<>> THEN 0
  ELSE 10 * DigitsValue(SubSeq(b, 1, Len(b) - 1)) + DigitValue(b[Len(b)])

\* int(s) for a text int() accepts.
IntOf(s) ==
  LET mag == DigitsValue(DropUnderscores(IntBody(s)))
  IN IF IntStrip(s)[1] = "-" THEN 0 - mag ELSE mag

\* pin_val: the integer when the text parses as one, else the text.
PinValue(s) ==
  IF IntParses(s) THEN [isint |-> TRUE, num |-> IntOf(s), text |-> <<>>]
  ELSE [isint |-> FALSE, num |-> 0, text |-> s]

\* pin in PINS
PinIn(pin, pins) ==
  IF pin.isint THEN pin.num \in pins.numbers ELSE pin.text \in pins.names

is_valid_pin(func, pin) ==
  IF func = S_analogRead THEN PinIn(pin, ANALOG_PINS)
  ELSE IF func \in {S_digitalRead, S_digitalWrite} THEN PinIn(pin, DIGITAL_PINS)
  ELSE TRUE

\* ------------------------------------------------------------------------
\* main.py, main(): instrumentation
\* ------------------------------------------------------------------------
LogPrefix == <<"E", "S", "P", "_", "L", "O", "G", "I", "(", "T", "A", "G", ",", " ", "\"", "P", "I", "N", " ">>
LogSeparator == <<",", " ">>
LogSuffix == <<"\"", ")", ";">>

\* Variant: the first argument is taken as the pin whenever there is one.
PinOf_first(args) == IF Len(args) >= 1 THEN args[1] ELSE None

\* pin, val = args[:2] if len(args) >= 2 else (None, None)
PinOf(args) == IF Len(args) >= 2 THEN args[1] ELSE None
ValOf(args) == IF Len(args) >= 2 THEN args[2] ELSE None

\* var_assignments[pin] when pin is a key, else pin.
Resolve(pin, assignments) ==
  IF pin \in DOMAIN assignments THEN assignments[pin] ELSE pin

\* f'ESP_LOGI(TAG, "PIN {pin_resolved}, {val}");'.encode()
log_stmt(pin_resolved, val) ==
  Encode(LogPrefix \o Str(pin_resolved) \o LogSeparator \o Str(val) \o LogSuffix)

\* The edit recorded for one call whose arguments were extracted.
EditOf(call, args, assignments) ==
  [start |-> call.start, end |-> call.end,
   repl |-> log_stmt(Resolve(PinOf(args), assignments), ValOf(args))]

\* bytes a < bytes b
RECURSIVE BytesLess(_, _)
BytesLess(a, b) ==
  IF b = <<>> THEN FALSE
  ELSE IF a = <<>> THEN TRUE
  ELSE IF Head(a) = Head(b) THEN BytesLess(Tail(a), Tail(b))
  ELSE Ord(Head(a)) < Ord(Head(b))

\* Tuple order on (start, end, repl).
EditLess(e, f) ==
  \/ e.start < f.start
  \/ e.start = f.start /\ e.end < f.end
  \/ e.start = f.start /\ e.end = f.end /\ BytesLess(e.repl, f.repl)

\* Variant: the edits in ascending order.
RECURSIVE SortedReverse_ascending(_)
SortedReverse_ascending(es) ==
  IF es = <<>> THEN <<>>
  ELSE LET m == CHOOSE i \in 1..Len(es) :
                  /\ \A j \in 1..Len(es) : ~EditLess(es[j], es[i])
                  /\ \A j \in 1..(i - 1) : EditLess(es[i], es[j])
       IN <<es[m]>> \o SortedReverse_ascending(SubSeq(es, 1, m - 1) \o SubSeq(es, m + 1, Len(es)))

\* sorted(edits, reverse=True)
RECURSIVE SortedReverse(_)
SortedReverse(es) ==
  IF es = <<>> THEN <<>>
  ELSE LET m == CHOOSE i \in 1..Len(es) :
                  /\ \A j \in 1..Len(es) : ~EditLess(es[i], es[j])
                  /\ \A j \in 1..(i - 1) : EditLess(es[j], es[i])
       IN <<es[m]>> \o SortedReverse(SubSeq(es, 1, m - 1) \o SubSeq(es, m + 1, Len(es)))

\* instrumented[start:end] = repl, with Python's clamping of slice bounds.
SliceAssign(buf, start, end, repl) ==
  LET s == Min(start, Len(buf))
      e == Max(s, Min(end, Len(buf)))
  IN SubSeq(buf, 1, s) \o repl \o SubSeq(buf, e + 1, Len(buf))

\* ------------------------------------------------------------------------
\* main.py, main(): verification of one CSV row
\* ------------------------------------------------------------------------
\* The rows the CSV reader may yield after the header.
RowPool ==
  { <<S_digitalWrite, <<"5">>>>,
    <<S_digitalWrite, <<"4", "2">>>>,
    <<S_digitalWrite, <<"6">>>>,
    <<<<" ", "d", "i", "g", "i", "t", "a", "l", "W", "r", "i", "t", "e">>, <<"\f", "0", "\\u0665", " ">>>>,
    <<S_digitalWrite, <<"N", "o", "n", "e">>>>,
    <<S_analogRead, S_A0>>,
    <<S_digitalWrite>> }

\* args[0] if args else None
FirstArg(args) == IF args # <<>> THEN args[1] ELSE None

\* str(arg_pin_val) for one call's extracted arguments.
ObservedPin(args, assignments) ==
  LET arg_pin == FirstArg(args) IN
  IF arg_pin \in DOMAIN assignments
  THEN StrCoerced(assignments[arg_pin])
  ELSE StrCoerced(arg_pin)

\* Variant: a call without arguments adds nothing to pins_used.
PinsUsed_skipempty(func_calls, src, assignments) ==
  {ObservedPin(extract_args(func_calls[i], src).values, assignments) :
     i \in {j \in 1..Len(func_calls) : extract_args(func_calls[j], src).values # <<>>}}

\* The pins_used set built by the loop over func_calls.
PinsUsed(func_calls, src, assignments) ==
  {ObservedPin(extract_args(func_calls[i], src).values, assignments) :
     i \in 1..Len(func_calls)}

\* The branch of the final if / elif / else.
Classify(pin_val_str, pins_used) ==
  IF pin_val_str \in pins_used THEN "FOUND"
  ELSE IF pins_used # {} THEN "PRESENT"
  ELSE "MISSING"

\* The line printed for a row: its status and, for PRESENT, the pins listed.
ReportLine(func, pin, pins_used) ==
  LET status == Classify(StrCoerced(pin), pins_used) IN
  [func |-> func, pin |-> pin, status |-> status,
   listed |-> IF status = "PRESENT" THEN pins_used ELSE {}]

\* ------------------------------------------------------------------------
\* main(): the run as a state machine
\* ------------------------------------------------------------------------
NoRow == <<>>
\* No evaluator has been constructed.
NoEvaluator == [files |-> <<>>]
\* Neither method has been called.
NotCalled == [raised |-> FALSE, value |-> <<>>]
NothingReturned == [compile_code |-> NotCalled, check_code |-> NotCalled]
NoLine == [func |-> <<>>, pin |-> <<>>, status |-> "", listed |-> {}]

InitFor(programs) ==
  /\ self = NoEvaluator
  /\ returned = NothingReturned
  /\ \E p \in programs :
       /\ source = Parse(p).t
       /\ tree = Parse(p).n
  /\ var_assignments = EmptyDict
  /\ calls = <<>>
  /\ edits = <<>>
  /\ todo = <<>>
  /\ instrumented = <<>>
  /\ output_file = <<>>
  /\ written = FALSE
  /\ pc = "start"
  /\ row = NoRow
  /\ line = NoLine
  /\ ANALOG_PINS = ANALOG_PINS_DEFAULT
  /\ DIGITAL_PINS = DIGITAL_PINS_DEFAULT
  /\ prev_line = NoLine

Init == InitFor(Programs)

\* line 127
ExtractVariableAssignments ==
  /\ UNCHANGED <<self, returned>>
  /\ pc = "start"
  /\ LET r == extract_variable_assignments(tree, source)
     IN IF r.raised
        THEN /\ pc' = "crashed"
             /\ UNCHANGED var_assignments
        ELSE /\ var_assignments' = r.assignments
             /\ pc' = "find"
  /\ UNCHANGED <<source, tree, calls, edits, todo, instrumented, output_file,
                 written, row, line, ANALOG_PINS, DIGITAL_PINS, prev_line>>

\* lines 130-131
FindDigitalWriteCalls ==
  /\ UNCHANGED <<self, returned>>
  /\ pc = "find"
  /\ IF CalleeUndecodable(tree, source)
     THEN /\ pc' = "crashed"
          /\ calls' = find_digital_write_calls_until_raise(tree, source)
     ELSE /\ calls' = find_digital_write_calls(tree, source)
          /\ pc' = "edits"
  /\ UNCHANGED <<source, tree, var_assignments, edits, todo, instrumented,
                 output_file, written, row, line, ANALOG_PINS, DIGITAL_PINS,
                 prev_line>>

\* lines 133-146: one iteration of the loop over calls
BuildEdit ==
  /\ UNCHANGED <<self, returned>>
  /\ pc = "edits"
  /\ Len(edits) < Len(calls)
  /\ LET call == calls[Len(edits) + 1]
         args == extract_args(call, source)
     IN IF args.raised
        THEN /\ pc' = "crashed"
             /\ UNCHANGED edits
        ELSE /\ edits' = Append(edits, EditOf(call, args.values, var_assignments))
             /\ UNCHANGED pc
  /\ UNCHANGED <<source, tree, var_assignments, calls, todo, instrumented,
                 output_file, written, row, line, ANALOG_PINS, DIGITAL_PINS,
                 prev_line>>

\* lines 147-148: copy the source and sort the edits
SortEdits ==
  /\ UNCHANGED <<self, returned>>
  /\ pc = "edits"
  /\ Len(edits) = Len(calls)
  /\ instrumented' = source
  /\ todo' = SortedReverse(edits)
  /\ pc' = "apply"
  /\ UNCHANGED <<source, tree, var_assignments, calls, edits, output_file,
                 written, row, line, ANALOG_PINS, DIGITAL_PINS, prev_line>>

\* line 149: one iteration of the loop over the sorted edits
ApplyEdit ==
  /\ UNCHANGED <<self, returned>>
  /\ pc = "apply"
  /\ todo # <<>>
  /\ instrumented' = SliceAssign(instrumented, Head(todo).start, Head(todo).end,
                                 Head(todo).repl)
  /\ todo' = Tail(todo)
  /\ UNCHANGED <<source, tree, var_assignments, calls, edits, output_file,
                 written, pc, row, line, ANALOG_PINS, DIGITAL_PINS, prev_line>>

\* lines 150-152
WriteOutput ==
  /\ UNCHANGED <<self, returned>>
  /\ pc = "apply"
  /\ todo = <<>>
  /\ output_file' = instrumented
  /\ written' = TRUE
  /\ pc' = "verify"
  /\ UNCHANGED <<source, tree, var_assignments, calls, edits, todo,
                 instrumented, row, line, ANALOG_PINS, DIGITAL_PINS, prev_line>>

\* lines 159-192: one CSV row
VerifyRow ==
  /\ UNCHANGED <<self, returned>>
  /\ pc = "verify"
  /\ \E r \in RowPool :
       /\ row' = r
       /\ IF Len(r) < 2
          THEN UNCHANGED <<line, pc>>
          ELSE LET func == Strip(r[1])
                   pin == Strip(r[2])
                   func_calls == find_function_calls(tree, source, func)
               IN IF \/ CalleeUndecodable(tree, source)
                     \/ \E k \in 1..Len(func_calls) :
                          extract_args(func_calls[k], source).raised
                  THEN /\ pc' = "crashed"
                       /\ UNCHANGED line
                  ELSE /\ line' = ReportLine(func, pin,
                                     PinsUsed(func_calls, source, var_assignments))
                       /\ UNCHANGED pc
  /\ UNCHANGED <<source, tree, var_assignments, calls, edits, todo,
                 instrumented, output_file, written, ANALOG_PINS, DIGITAL_PINS,
                 prev_line>>

\* The reader is exhausted: main returns.
EndOfCsv ==
  /\ UNCHANGED <<self, returned>>
  /\ pc = "verify"
  /\ pc' = "done"
  /\ UNCHANGED <<source, tree, var_assignments, calls, edits, todo,
                 instrumented, output_file, written, row, line, ANALOG_PINS,
                 DIGITAL_PINS, prev_line>>

Next ==
  \/ ExtractVariableAssignments
  \/ FindDigitalWriteCalls
  \/ BuildEdit
  \/ SortEdits
  \/ ApplyEdit
  \/ WriteOutput
  \/ VerifyRow
  \/ EndOfCsv

Spec == Init /\ [][Next]_vars

\* ------------------------------------------------------------------------
\* The edit application of main() (lines 147-151) on arbitrary edit lists
\* ------------------------------------------------------------------------
Letters == <<"a", "b", "c", "d", "e", "f", "g", "h">>

\* A buffer of n pairwise different bytes.
Buffer(n) == SubSeq(Letters, 1, n)

\* The replacements: one of each length 0 .. MaxRepl, bytes not in the buffer.
Replacements == {SubSeq(<<"z", "y", "x", "w", "v", "u">>, 1, m) : m \in 0..MaxRepl}

\* Lists of 2 .. MaxEdits spans of a buffer of length n, in any order,
\* pairwise different and pairwise non-overlapping.
SpanLists(n) ==
  LET Spans == {sp \in (0..n) \X (0..n) : sp[1] <= sp[2]}
  IN {sps \in UNION {[1..m -> Spans] : m \in 2..MaxEdits} :
        \A i, j \in 1..Len(sps) :
          i # j => /\ (sps[i][2] <= sps[j][1] \/ sps[j][2] <= sps[i][1])
                   /\ sps[i] # sps[j]}

\* A call node that spans the bytes of an edit.
SpanNode(sp) ==
  [type |-> "call_expression", start |-> sp[1], end |-> sp[2],
   children |-> <<>>, fields |-> {}]

\* main() at line 147 with an arbitrary buffer and arbitrary recorded edits.
InitEdits ==
  /\ self = NoEvaluator
  /\ returned = NothingReturned
  /\ \E n \in 0..MaxBuf :
       /\ source = Buffer(n)
       /\ \E sps \in SpanLists(n) :
            /\ \E rs \in [1..Len(sps) -> Replacements] :
                 edits = [k \in 1..Len(sps) |->
                            [start |-> sps[k][1], end |-> sps[k][2], repl |-> rs[k]]]
            /\ calls = [k \in 1..Len(sps) |-> SpanNode(sps[k])]
  /\ tree = NoNode
  /\ var_assignments = EmptyDict
  /\ todo = <<>>
  /\ instrumented = <<>>
  /\ output_file = <<>>
  /\ written = FALSE
  /\ pc = "edits"
  /\ row = NoRow
  /\ line = NoLine
  /\ ANALOG_PINS = ANALOG_PINS_DEFAULT
  /\ DIGITAL_PINS = DIGITAL_PINS_DEFAULT
  /\ prev_line = NoLine

NextEdits == SortEdits \/ ApplyEdit \/ WriteOutput

SpecEdits == InitEdits /\ [][NextEdits]_vars

\* ------------------------------------------------------------------------
\* Two runs of main() on the same input under different pin namespaces
\* ------------------------------------------------------------------------
NoPins == [names |-> {}, numbers |-> {}]

NamespaceAlternatives ==
  { [analog |-> NoPins, digital |-> NoPins],
    [analog |-> DIGITAL_PINS_DEFAULT, digital |-> ANALOG_PINS_DEFAULT] }

InitNs == InitFor(ProgramsUpTo(MaxNsStmts, MaxNsStmts, MaxNsStmts))

\* main() is run again on the same file with other namespace sets; the last
\* line of the finished run is kept for comparison.
Rerun ==
  /\ UNCHANGED <<self, returned>>
  /\ pc = "done"
  /\ prev_line = NoLine
  /\ line # NoLine
  /\ \E ns \in NamespaceAlternatives :
       /\ ANALOG_PINS' = ns.analog
       /\ DIGITAL_PINS' = ns.digital
  /\ prev_line' = line
  /\ var_assignments' = EmptyDict
  /\ calls' = <<>>
  /\ edits' = <<>>
  /\ todo' = <<>>
  /\ instrumented' = <<>>
  /\ output_file' = <<>>
  /\ written' = FALSE
  /\ pc' = "start"
  /\ row' = NoRow
  /\ line' = NoLine
  /\ UNCHANGED <<source, tree>>

NextNs == Next \/ Rerun

SpecNs == InitNs /\ [][NextNs]_vars

\* ------------------------------------------------------------------------
\* esp_idf_stdio_evaluator.py: EspIdfStdIOEvaluator
\* ------------------------------------------------------------------------
\* A message is the format text of its f-string followed by the texts that
\* fill it; None is the absent message.
LF == <<"\n">>

\* str(n) for an integer n.
RECURSIVE Repr(_)
Repr(n) ==
  LET d == <<"0", "1", "2", "3", "4", "5", "6", "7", "8", "9">>[(n % 10) + 1]
  IN IF n < 0 THEN <<"-">> \o Repr(0 - n)
     ELSE IF n < 10 THEN <<d>>
     ELSE Repr(n \div 10) \o <<d>>

\* str(b) for a bool.
ReprBool(b) == IF b THEN <<"T", "r", "u", "e">> ELSE <<"F", "a", "l", "s", "e">>

\* sep.join(parts)
RECURSIVE Join(_, _)
Join(parts, sep) ==
  IF parts = <<>> THEN <<>>
  ELSE IF Len(parts) = 1 THEN parts[1]
  ELSE parts[1] \o sep \o Join(Tail(parts), sep)

\* s.split(sep) for a one-character separator.
RECURSIVE Split(_, _)
Split(s, sep) ==
  LET at == {i \in 1..Len(s) : s[i] = sep}
  IN IF at = {} THEN <<s>>
     ELSE LET i == CHOOSE k \in at : \A j \in at : k <= j
          IN <<SubSeq(s, 1, i - 1)>> \o Split(SubSeq(s, i + 1, Len(s)), sep)

\* s.splitlines(): a line ends at a line boundary, \r\n counting as one;
\* no line after a final boundary.
RECURSIVE SplitLines(_)
SplitLines(s) ==
  LET brk == {i \in 1..Len(s) : s[i] \in LineBoundaries}
  IN IF s = <<>> THEN <<>>
     ELSE IF brk = {} THEN <<s>>
     ELSE LET i == CHOOSE k \in brk : \A j \in brk : k <= j
              skip == IF s[i] = "\r" /\ i < Len(s) /\ s[i + 1] = "\n" THEN 2 ELSE 1
          IN <<SubSeq(s, 1, i - 1)>> \o SplitLines(SubSeq(s, i + skip, Len(s)))

\* bool(v) for a message, a text or None.
Truthy(v) == v # None /\ v # <<>>

\* __init__: the attributes the two methods read or write.  output_value is
\* not among them: it exists only once compile_code has assigned it.
EspIdfStdIOEvaluator(expected_output, weight) ==
  [files |-> <<>>,
   timeout |-> 20,
   expected_output |-> expected_output,
   weight |-> weight,
   diagnostic_info |-> <<>>,
   compile_error |-> None]

\* self.name = value
SetAttr(ev, name, value) ==
  [f \in DOMAIN ev \cup {name} |-> IF f = name THEN value ELSE ev[f]]

\* What the file system and the build script do during one compile_code
\* call: returncode is proc.returncode (negative when a signal ended the
\* script), stderr and stdout the decoded streams of lines 116-117,
\* build_log_content the value of that variable at line 131, raw_exists and
\* raw_output those of line 158, content what line 167 reads.
Outcome(kind, returncode, stderr, stdout, build_log_content, raw_exists, raw_output, content) ==
  [kind |-> kind, returncode |-> returncode, stderr |-> stderr,
   stdout |-> stdout, build_log_content |-> build_log_content,
   raw_exists |-> raw_exists, raw_output |-> raw_output, content |-> content,
   e |-> <<"E", "I", "O">>]

\* line 62
WriteErrorMessage(env) ==
  <<"Failed to write user code to file: {}", env.e>>

\* line 100
TimeoutMessage(ev) ==
  <<"Timeout: Compilation/QEMU execution exceeded {}s time limit. QEMU may need more time to boot and execute. Consider increasing timeout.",
    Repr(ev.timeout)>>

\* line 107
RunErrorMessage(env) ==
  <<"Error running evaluator: {}", env.e>>

\* lines 132-137
ExitMessage(env) ==
  IF Truthy(env.build_log_content)
  THEN <<"Compilation Errors:\n{}", env.build_log_content>>
  ELSE <<"Script failed with exit code {}.\nSTDERR:\n{}\nSTDOUT:\n{}",
         Repr(env.returncode), env.stderr, env.stdout>>

\* line 159
MissingMessage(env) ==
  <<"No filtered output generated by QEMU. Raw output file exists: {}, size: {} bytes",
    ReprBool(env.raw_exists),
    Repr(IF Truthy(env.raw_output) THEN Len(env.raw_output) ELSE 0)>>

\* line 171
ReadErrorMessage(env) ==
  <<"Error reading filtered output file: {}", env.e>>

\* return False, error_msg  after  self.output_value = ''
Failed_keepoutput(ev, error_msg, diagnostic, stores) ==
  LET e2 == IF diagnostic THEN SetAttr(ev, "diagnostic_info", error_msg) ELSE ev
      e3 == IF stores THEN SetAttr(e2, "compile_error", error_msg) ELSE e2
  IN [ev |-> e3, ret |-> <<FALSE, error_msg>>]

Failed(ev, error_msg, diagnostic, stores) ==
  LET e1 == SetAttr(ev, "output_value", <<>>)
      e2 == IF diagnostic THEN SetAttr(e1, "diagnostic_info", error_msg) ELSE e1
      e3 == IF stores THEN SetAttr(e2, "compile_error", error_msg) ELSE e2
  IN [ev |-> e3, ret |-> <<FALSE, error_msg>>]

\* compile_code: the evaluator afterwards and the pair returned.
compile_code(ev, env) ==
  CASE env.kind = "write_error" -> Failed(ev, WriteErrorMessage(env), FALSE, FALSE)
    [] env.kind = "timeout" -> Failed(ev, TimeoutMessage(ev), TRUE, FALSE)
    [] env.kind = "run_error" -> Failed(ev, RunErrorMessage(env), TRUE, FALSE)
    [] env.kind = "exit" -> Failed(ev, ExitMessage(env), TRUE, TRUE)
    [] env.kind = "missing" -> Failed(ev, MissingMessage(env), TRUE, FALSE)
    [] env.kind = "read_error" -> Failed(ev, ReadErrorMessage(env), TRUE, FALSE)
    [] env.kind = "ok" ->
         [ev |-> SetAttr(ev, "output_value", env.content), ret |-> <<TRUE, None>>]

\* normalize (lines 185-187)
normalize(s) ==
  LET lines == SplitLines(Strip(s))
      stripped == [i \in 1..Len(lines) |-> Strip(lines[i])]
  IN Join(SelectSeq(stripped, Truthy), LF)

\* lines 200-203 and 229-235: expected_idx after the loop over actual_lines
RECURSIVE ExpectedIdx(_, _, _)
ExpectedIdx_unordered(expected_lines, actual_lines, expected_idx) ==
  Cardinality({i \in 1..Len(expected_lines) :
                 \E k \in 1..Len(actual_lines) : actual_lines[k] = expected_lines[i]})

ExpectedIdx(expected_lines, actual_lines, expected_idx) ==
  IF actual_lines = <<>> THEN expected_idx
  ELSE ExpectedIdx(expected_lines, Tail(actual_lines),
                   IF /\ expected_idx < Len(expected_lines)
                      /\ expected_lines[expected_idx + 1] = Head(actual_lines)
                   THEN expected_idx + 1 ELSE expected_idx)

NotFoundPrefix == <<"E", "x", "p", "e", "c", "t", "e", "d", " ", "l", "i", "n", "e", " ", "N", "O", "T", " ", "f", "o", "u", "n", "d", ":", " ", "'">>

\* check_code: the triple returned, or the AttributeError of line 189 when
\* no compile_code call has assigned output_value.
check_code(ev) ==
  IF "output_value" \notin DOMAIN ev THEN [raised |-> TRUE, value |-> <<>>]
  ELSE
    LET actual == normalize(ev.output_value)
        expected == normalize(ev.expected_output)
        expected_lines == IF Truthy(expected) THEN Split(expected, "\n") ELSE <<>>
        actual_lines == IF Truthy(actual) THEN Split(actual, "\n") ELSE <<>>
        expected_idx == ExpectedIdx(expected_lines, actual_lines, 0)
        is_correct == IF expected_lines # <<>>
                      THEN expected_idx = Len(expected_lines)
                      ELSE Truthy(Strip(actual))
        mark_fraction == ev.weight
        missing_lines == [j \in 1..(Len(expected_lines) - expected_idx) |->
                            NotFoundPrefix \o expected_lines[expected_idx + j] \o <<"'">>]
        error_msg == IF missing_lines # <<>>
                     THEN <<"Output mismatch:\n{}", Join(missing_lines, LF)>>
                     ELSE <<"Expected output not found in actual output.">>
    IN [raised |-> FALSE,
        value |-> IF Truthy(ev.compile_error)
                  THEN <<FALSE, ev.compile_error, mark_fraction>>
                  ELSE IF ~is_correct THEN <<FALSE, error_msg, mark_fraction>>
                  ELSE <<is_correct, None, mark_fraction>>]

\* ------------------------------------------------------------------------
\* One evaluator under any sequence of compile_code and check_code calls
\* ------------------------------------------------------------------------
\* The lines of an expected output: plain, padded on the right, blank.
ExpectedLinePool == <<<<"a">>, <<"b", " ">>, <<" ">>>>

\* The lines of a filtered output file: plain, padded on the left, empty.
OutputLinePool == <<<<"a">>, <<" ", "b">>, <<>>>>

\* The texts of at most n lines of a pool.
Texts(pool, n) ==
  {Join([i \in 1..Len(ix) |-> pool[ix[i]]], LF) : ix \in SeqsUpTo(Len(pool), n)}

Weights == {1, 2}

Environments ==
  {Outcome(k, 0, <<>>, <<>>, <<>>, FALSE, <<>>, <<>>) :
     k \in {"write_error", "timeout", "run_error"}}
  \* the script fails with status 1 and no output; a signal 9 ends it after
  \* it wrote to both streams
  \cup {Outcome("exit", 1, <<>>, <<>>, <<>>, FALSE, <<>>, <<>>),
        Outcome("exit", 0 - 9, <<"n", "o", "\n">>, <<"o", "k">>, <<>>, FALSE, <<>>, <<>>)}
  \cup {Outcome("exit", 1, <<>>, <<>>, <<"e", "r", "r", "o", "r", ":", " ", "x">>,
                FALSE, <<>>, <<>>)}
  \cup {Outcome("missing", 0, <<>>, <<>>, <<>>, r,
                IF r THEN <<"b", "o", "o", "t">> ELSE <<>>, <<>>) : r \in BOOLEAN}
  \cup {Outcome("read_error", 0, <<>>, <<>>, <<>>, TRUE, <<>>, <<>>)}
  \cup {Outcome("ok", 0, <<>>, <<>>, <<>>, TRUE, c, c) :
          c \in Texts(OutputLinePool, MaxOutputLines)}

\* A freshly constructed evaluator; main() is not running.
InitEval ==
  /\ \E expected_output \in Texts(ExpectedLinePool, MaxExpectedLines), weight \in Weights :
       self = EspIdfStdIOEvaluator(expected_output, weight)
  /\ returned = NothingReturned
  /\ source = <<>>
  /\ tree = NoNode
  /\ var_assignments = EmptyDict
  /\ calls = <<>>
  /\ edits = <<>>
  /\ todo = <<>>
  /\ instrumented = <<>>
  /\ output_file = <<>>
  /\ written = FALSE
  /\ pc = "evaluator"
  /\ row = NoRow
  /\ line = NoLine
  /\ ANALOG_PINS = ANALOG_PINS_DEFAULT
  /\ DIGITAL_PINS = DIGITAL_PINS_DEFAULT
  /\ prev_line = NoLine

CompileCode ==
  /\ pc = "evaluator"
  /\ \E env \in Environments :
       LET r == compile_code(self, env)
       IN /\ self' = r.ev
          /\ returned' = [compile_code |-> [raised |-> FALSE, value |-> r.ret],
                          check_code |-> NotCalled]
  /\ UNCHANGED <<source, tree, var_assignments, calls, edits, todo,
                 instrumented, output_file, written, pc, row, line,
                 ANALOG_PINS, DIGITAL_PINS, prev_line>>

CheckCode ==
  /\ pc = "evaluator"
  /\ returned' = [returned EXCEPT !.check_code = check_code(self)]
  /\ UNCHANGED <<source, tree, var_assignments, calls, edits, todo,
                 instrumented, output_file, written, pc, row, line,
                 ANALOG_PINS, DIGITAL_PINS, prev_line, self>>

NextEval == CompileCode \/ CheckCode

SpecEval == InitEval /\ [][NextEval]_vars

\* ------------------------------------------------------------------------
\* Properties
\* ------------------------------------------------------------------------
\* Every node of a subtree.
RECURSIVE Descendants(_)
Descendants(node) ==
  {node} \cup UNION {Descendants(node.children[i]) : i \in 1..Len(node.children)}

FieldNode(node, name) ==
  IF \E f \in node.fields : f.name = name
  THEN node.children[(CHOOSE f \in node.fields : f.name = name).idx]
  ELSE NoNode

NodeText(node) == SubSeq(source, node.start + 1, node.end)

IsCallTo(node, name) ==
  /\ node.type = "call_expression"
  /\ FieldNode(node, "function") # NoNode
  /\ NodeText(FieldNode(node, "function")) = name

HasArguments(call) == FieldNode(call, "arguments") # NoNode

\* The argument texts of a call, read off its argument list.
ArgTexts(call) ==
  LET list == FieldNode(call, "arguments").children
      isArg(i) == list[i].type \notin {"(", ")", ","}
      argIdx == {i \in 1..Len(list) : isArg(i)}
      nth(k) == CHOOSE i \in argIdx : Cardinality({j \in argIdx : j <= i}) = k
  IN [k \in 1..Cardinality(argIdx) |-> NodeText(list[nth(k)])]

\* The edits ordered by ascending span.
RECURSIVE AscendingBySpan(_)
AscendingBySpan(es) ==
  IF es = {} THEN <<>>
  ELSE LET m == CHOOSE e \in es :
                  \A f \in es : e.start < f.start
                                \/ (e.start = f.start /\ e.end <= f.end)
       IN <<m>> \o AscendingBySpan(es \ {m})

\* All edits substituted at once against the original buffer: one pass from
\* left to right that copies the bytes between spans and emits each
\* replacement in place of its span.
Simultaneous(buf, es) ==
  LET asc == AscendingBySpan({es[i] : i \in 1..Len(es)})
      Out[k \in 0..Len(asc)] ==
        IF k = 0 THEN <<>>
        ELSE Out[k - 1]
             \o SubSeq(buf, (IF k = 1 THEN 0 ELSE asc[k - 1].end) + 1, asc[k].start)
             \o asc[k].repl
  IN IF asc = <<>> THEN buf
     ELSE Out[Len(asc)] \o SubSeq(buf, asc[Len(asc)].end + 1, Len(buf))

IsLogStatement(bytes) ==
  /\ Len(bytes) >= Len(LogPrefix) + Len(LogSuffix)
  /\ SubSeq(bytes, 1, Len(LogPrefix)) = LogPrefix
  /\ SubSeq(bytes, Len(bytes) - Len(LogSuffix) + 1, Len(bytes)) = LogSuffix

\* C1: the written output differs from the input only at the spans of the
\* digitalWrite calls found: one replaced span per call found, each replaced
\* by one ESP_LOGI statement, every other byte unchanged and in order (with no
\* call, the output is the input).
C1_OnlyCallSpansReplaced ==
  written =>
    LET found == {n \in Descendants(tree) : IsCallTo(n, S_digitalWrite)} IN
    /\ Len(edits) = Cardinality(found)
    /\ \A k \in 1..Len(edits) :
         /\ \E n \in found : n.start = edits[k].start /\ n.end = edits[k].end
         /\ IsLogStatement(edits[k].repl)
    /\ output_file = Simultaneous(source, edits)
    /\ (found = {} => output_file = source)

\* C2: applying N >= 2 non-overlapping edits one by one in descending order
\* of start offset gives the buffer that substituting all of them at once
\* against the original gives, whatever the replacement lengths.
C2_DescendingEqualsSimultaneous ==
  (written /\ Len(edits) >= 2) => output_file = Simultaneous(source, edits)

\* C2 witness: two or more edits, listed in ascending order, one of which
\* changes the length of its span, have been applied and written.
C2_Witness ==
  /\ written
  /\ Len(edits) >= 2
  /\ edits[1].start < edits[2].start
  /\ \E i \in 1..Len(edits) : Len(edits[i].repl) # edits[i].end - edits[i].start
  /\ output_file # source
  /\ output_file = Simultaneous(source, edits)

\* A declaration  int v = <initialiser>;  with a plain identifier v.
IsInitDeclaration(d) ==
  /\ d.type = "declaration"
  /\ FieldNode(d, "declarator").type = "init_declarator"
  /\ FieldNode(FieldNode(d, "declarator"), "declarator").type = "identifier"

DeclaredName(d) == NodeText(FieldNode(FieldNode(d, "declarator"), "declarator"))
Initialiser(d) == FieldNode(FieldNode(d, "declarator"), "value")

IsLiteralDeclaration(d) ==
  IsInitDeclaration(d) /\ Initialiser(d).type = "number_literal"

\* C3: for a declaration of v with a numeric-literal initialiser n, the binding
\* map has key v mapped to n, and the statement replacing a call
\* digitalWrite(v, x) embeds n.
C3_LiteralBindingEmbedded ==
  pc # "start" =>
    \A d \in Descendants(tree) :
      IsLiteralDeclaration(d) =>
        /\ DeclaredName(d) \in DOMAIN var_assignments
        /\ var_assignments[DeclaredName(d)] = NodeText(Initialiser(d))
        /\ \A k \in 1..Len(edits) :
             (/\ Len(ArgTexts(calls[k])) >= 2
              /\ ArgTexts(calls[k])[1] = DeclaredName(d))
             => edits[k].repl = LogPrefix \o NodeText(Initialiser(d)) \o LogSeparator
                                \o ArgTexts(calls[k])[2] \o LogSuffix

\* A declaration  int b = a;  where a is declared with a numeric literal.
IsAliasDeclaration(d) ==
  /\ IsInitDeclaration(d)
  /\ Initialiser(d).type = "identifier"
  /\ \E d2 \in Descendants(tree) :
       IsLiteralDeclaration(d2) /\ DeclaredName(d2) = NodeText(Initialiser(d))

\* C4: resolution is one hop: for  int A = 5; int B = A;  the binding of B is
\* the text A, and the statement replacing digitalWrite(B, x) embeds A.
C4_OneHopBinding ==
  pc # "start" =>
    \A d \in Descendants(tree) :
      IsAliasDeclaration(d) =>
        /\ DeclaredName(d) \in DOMAIN var_assignments
        /\ var_assignments[DeclaredName(d)] = NodeText(Initialiser(d))
        /\ \A k \in 1..Len(edits) :
             (/\ Len(ArgTexts(calls[k])) >= 2
              /\ ArgTexts(calls[k])[1] = DeclaredName(d))
             => edits[k].repl = LogPrefix \o NodeText(Initialiser(d)) \o LogSeparator
                                \o ArgTexts(calls[k])[2] \o LogSuffix

\* The string form of a call's first argument, resolved once through the
\* binding map and coerced to an integer when it parses as one; a call with
\* no argument contributes the string form of None.
ObservedOf(call) ==
  LET texts == ArgTexts(call)
      first == IF Len(texts) >= 1 THEN texts[1] ELSE None
      resolved == IF first \in DOMAIN var_assignments
                  THEN var_assignments[first] ELSE first
  IN IF IntParses(resolved) THEN StrOfInt(resolved)
     ELSE IF resolved = None THEN <<"N", "o", "n", "e">> ELSE resolved

\* C5: for a row (function, expected_pin) with at least two fields, the line
\* printed is FOUND iff the string form of the coerced expected pin is among
\* the observed pins of the calls to function, PRESENT (listing the observed
\* pins) iff it is not and some pin was observed, MISSING iff none was
\* observed, which is exactly when the source has no call to function.
C5_RowClassification ==
  (pc \in {"verify", "done"} /\ Len(row) >= 2) =>
    LET func == Strip(row[1])
        pin == Strip(row[2])
        expected == IF IntParses(pin) THEN StrOfInt(pin) ELSE pin
        callsTo == {n \in Descendants(tree) : IsCallTo(n, func)}
        observed == {ObservedOf(n) : n \in callsTo}
    IN /\ line.func = func
       /\ line.pin = pin
       /\ line.status \in {"FOUND", "PRESENT", "MISSING"}
       /\ line.status = "FOUND" <=> expected \in observed
       /\ line.status = "PRESENT" <=> (expected \notin observed /\ observed # {})
       /\ line.status = "MISSING" <=> observed = {}
       /\ line.status = "PRESENT" => line.listed = observed
       /\ observed = {} <=> callsTo = {}

\* C5 witness: the row " digitalWrite,\f0\u0665 " has been reported FOUND, its pin
\* coerced to 5 and matched against a first argument resolved through the
\* binding map.
C5_Witness ==
  /\ pc = "verify"
  /\ row = <<<<" ">> \o S_digitalWrite, <<"\f", "0", "\\u0665", " ">>>>
  /\ line.status = "FOUND"
  /\ \E n \in Descendants(tree) :
       /\ IsCallTo(n, S_digitalWrite)
       /\ HasArguments(n)
       /\ Len(ArgTexts(n)) >= 1
       /\ ArgTexts(n)[1] \in DOMAIN var_assignments

\* ESP_LOGI(TAG, "PIN None, None");
NoneStatement ==
  <<"E", "S", "P", "_", "L", "O", "G", "I", "(", "T", "A", "G", ",", " ", "\"",
    "P", "I", "N", " ", "N", "o", "n", "e", ",", " ", "N", "o", "n", "e", "\"",
    ")", ";">>

\* C7: extract_args never aborts the run: instrumentation and verification
\* go on whatever the argument list of a call holds. A run aborts only where
\* the traversals decode a declaration or a callee (lines 24, 36, 76-82).
C7_ExtractArgsNeverAborts ==
  pc = "crashed" =>
    \/ extract_variable_assignments(tree, source).raised
    \/ CalleeUndecodable(tree, source)

\* C8: a digitalWrite call with fewer than two arguments is recorded as one
\* edit over the call's span whose statement renders None for both pin and
\* value; the single argument, if any, is neither embedded nor resolved.
C8_FewerThanTwoArguments ==
  /\ Len(edits) <= Len(calls)
  /\ \A k \in 1..Len(edits) :
       /\ edits[k].start = calls[k].start
       /\ edits[k].end = calls[k].end
       /\ (HasArguments(calls[k]) /\ Len(ArgTexts(calls[k])) < 2)
          => edits[k].repl = NoneStatement

\* C8 witness: the output is written and a recorded call has exactly one
\* argument, which is a key of the binding map.
C8_Witness ==
  /\ written
  /\ \E k \in 1..Len(edits) :
       /\ HasArguments(calls[k])
       /\ Len(ArgTexts(calls[k])) = 1
       /\ ArgTexts(calls[k])[1] \in DOMAIN var_assignments
       /\ edits[k].repl = NoneStatement

\* The key under which a declaration could be entered: the text of its
\* "declarator" field or the name it declares.
EntryKeys(d) ==
  LET decl == FieldNode(d, "declarator") IN
  {NodeText(decl)} \cup
  (IF decl.type = "init_declarator" THEN {NodeText(FieldNode(decl, "declarator"))}
   ELSE {})

\* C9: the map has an entry for a declaration only if the declaration has an
\* initialiser that is a numeric literal, an identifier, a field identifier
\* or an assignment expression.
C9_OnlyRecognisedInitialisers ==
  pc # "start" =>
    \A d \in Descendants(tree) :
      (d.type = "declaration" /\ EntryKeys(d) \cap DOMAIN var_assignments # {})
      => /\ FieldNode(d, "declarator").type = "init_declarator"
         /\ Initialiser(d).type \in {"number_literal", "identifier",
                                     "field_identifier", "assignment_expression"}

\* Two half-open spans share no byte.
NonOverlapping(e, f) == e.end <= f.start \/ f.end <= e.start

\* C10: the recorded edits have pairwise non-overlapping byte spans.
C10_EditsNonOverlapping ==
  \A i, j \in 1..Len(edits) : i # j => NonOverlapping(edits[i], edits[j])

\* The lines of a text: its maximal runs free of line boundaries.
LinesOf(s) ==
  LET brk == {i \in 1..Len(s) : s[i] \in LineBoundaries}
      n == Cardinality(brk)
      pos(k) == IF k = 0 THEN 0
                ELSE IF k = n + 1 THEN Len(s) + 1
                ELSE CHOOSE i \in brk : Cardinality({j \in brk : j <= i}) = k
  IN [k \in 1..(n + 1) |-> SubSeq(s, pos(k - 1) + 1, pos(k) - 1)]

NonBlank(t) == t # <<>>

\* The lines of a text, each trimmed, blank lines dropped.
TrimmedLines(s) ==
  SelectSeq([k \in 1..Len(LinesOf(s)) |-> Strip(LinesOf(s)[k])], NonBlank)

\* e occurs in a as an in-order subsequence under exact equality.
IsSubsequence(e, a) ==
  \E f \in [1..Len(e) -> 1..Len(a)] :
    /\ \A i, j \in 1..Len(e) : i < j => f[i] < f[j]
    /\ \A i \in 1..Len(e) : a[f[i]] = e[i]

CheckReturned == returned.check_code # NotCalled /\ ~returned.check_code.raised

\* C11: whenever check_code has returned, the weight it returned is the
\* test case's weight; and if no compile error is stored, it reported pass
\* exactly when the trimmed non-blank expected lines are an in-order
\* subsequence of the trimmed non-blank actual lines, or, when there are no
\* such expected lines, exactly when there is at least one such actual line.
C11_CheckCodeVerdict ==
  CheckReturned =>
    LET expected_lines == TrimmedLines(self.expected_output)
        actual_lines == TrimmedLines(self.output_value)
        ret == returned.check_code.value
    IN /\ ret[3] = self.weight
       /\ self.compile_error = None =>
            ret[1] = IF expected_lines # <<>>
                     THEN IsSubsequence(expected_lines, actual_lines)
                     ELSE actual_lines # <<>>

\* check_code passed an output that has more lines than expected, the
\* expected output being padded or holding blank lines.
C11_Witness ==
  /\ CheckReturned
  /\ self.compile_error = None
  /\ returned.check_code.value[1]
  /\ TrimmedLines(self.expected_output) # <<>>
  /\ Len(TrimmedLines(self.output_value)) > Len(TrimmedLines(self.expected_output))
  /\ LinesOf(self.expected_output) # TrimmedLines(self.expected_output)

CompileFailed ==
  /\ returned.compile_code # NotCalled
  /\ ~returned.compile_code.value[1]

\* The message is one of the two that lines 133 and 135 format.
IsExitMessage(m) ==
  m[1] \in {"Compilation Errors:\n{}",
            "Script failed with exit code {}.\nSTDERR:\n{}\nSTDOUT:\n{}"}

\* C12: after a compile_code call that returned failure, output_value is the
\* empty string and a check_code call made since then returned without
\* reporting pass; when the failure was a non-zero exit status, its message
\* is stored in compile_error and is the message check_code returned.
C12_FailedCompileNeverPasses ==
  CompileFailed =>
    LET error_msg == returned.compile_code.value[2]
        checked == returned.check_code # NotCalled
    IN /\ "output_value" \in DOMAIN self
       /\ self.output_value = <<>>
       /\ checked => /\ ~returned.check_code.raised
                     /\ ~returned.check_code.value[1]
       /\ IsExitMessage(error_msg) =>
            /\ self.compile_error = error_msg
            /\ checked => returned.check_code.value[2] = error_msg

\* check_code returned the stored message of a non-zero exit although the
\* test case expects no output lines.
C12_Witness ==
  /\ CompileFailed
  /\ IsExitMessage(returned.compile_code.value[2])
  /\ returned.compile_code.value[2][2] = <<"-", "9">>
  /\ CheckReturned
  /\ returned.check_code.value[2] = self.compile_error
  /\ TrimmedLines(self.expected_output) = <<>>

====
